---- MODULE Spec2Model ----
(***************************************************************************)
(* Model of pkg/cluster/objects.go: the four reconcile operations of a     *)
(* Cluster (createStatefulSet, applySecrets, createService,                *)
(* createEndPoint) running against the orchestration platform.             *)
(*                                                                         *)
(* A worker runs one operation at a time on a Cluster receiver c[p]; every *)
(* platform call (Get / Create / Update) is one atomic step, so that two   *)
(* workers interleave at platform-call granularity.  The log lines an      *)
(* operation writes after a call are part of the step of that call.        *)
(***************************************************************************)
EXTENDS Integers, Sequences, FiniteSets, TLC

(***************************************************************************)
(* Bounds                                                                  *)
(***************************************************************************)
\* invocations the workers perform in all
MaxOps == 2
\* largest instance count a cluster spec carries
MaxInstances == 2

Procs == {1, 2}
\* the worker of the serialized specification
SerialProcs == {1}

ClusterNames == {"acid-a", "acid-b"}
Passwords == {"pw1", "pw2"}
CpuStrings == {"", "100m", "not-a-quantity"}
MemoryStrings == {"", "1Gi", "not-a-quantity"}

Ops == {"createStatefulSet", "applySecrets", "createService", "createEndPoint"}

Range(s) == {s[k] : k \in DOMAIN s}

(***************************************************************************)
(* Errors of the platform client.  "nil" is Go's nil error.                *)
(***************************************************************************)
Nil == "nil"
NotFound == "NotFound"
AlreadyExists == "AlreadyExists"
PlatformError == "PlatformError"

ResourceNotFound(err) == err = NotFound

IsKubernetesResourceAlreadyExistError(err) == err = AlreadyExists

(***************************************************************************)
(* The platform client: a store per object kind, a set of objects.  A name *)
(* is unique in a store because Create refuses a name that is present.     *)
(***************************************************************************)
Exists(store, name) == \E o \in store : o.name = name

GetErrs(store, name) ==
    IF Exists(store, name) THEN {Nil, PlatformError} ELSE {NotFound, PlatformError}

CreateErrs(store, obj) ==
    IF Exists(store, obj.name) THEN {AlreadyExists, PlatformError} ELSE {Nil, PlatformError}

UpdateErrs(store, obj) ==
    IF Exists(store, obj.name) THEN {Nil, PlatformError} ELSE {NotFound, PlatformError}

Created(store, obj, err) == IF err = Nil THEN store \cup {obj} ELSE store

Updated(store, obj, err) ==
    IF err = Nil THEN {o \in store : o.name # obj.name} \cup {obj} ELSE store

(***************************************************************************)
(* The Cluster receiver                                                    *)
(***************************************************************************)
\* credentials: the role is the credential store's key; objects.go reads
\* only username and password
PgUser(role, username, password) ==
    [role |-> role, username |-> username, password |-> password]

SuperuserChoices ==
    {<<>>} \cup {<<PgUser("superuser", "superuser", pw)>> : pw \in Passwords}
           \cup {<<PgUser("superuser", "postgres", "pw1")>>}

ReplicationChoices ==
    {<<>>, <<PgUser("replication", "replication", "pw1")>>}

PgUserLists == {su \o re : su \in SuperuserChoices, re \in ReplicationChoices}

ZeroCluster ==
    [name |-> "", cpu |-> "", memory |-> "", numberOfInstances |-> 0,
     pgUsers |-> <<>>]

\* the receivers an operation can be invoked on; a field the operation
\* does not read is left at its zero value, but for the credentials that
\* the serialized createStatefulSet is given.  The serialized specification
\* draws every spec and credential list for one cluster name; the
\* unserialized one draws two cluster names and fewer specs and lists (the
\* workload set and the longer credential lists for the first name only),
\* to keep two interleaved workers within reach of the model checker.
Clusters(o, serial) ==
    LET names == IF serial THEN {"acid-a"} ELSE ClusterNames
    IN IF o = "createStatefulSet"
       THEN {[ZeroCluster EXCEPT !.name = n, !.cpu = cpu, !.memory = mem,
                                 !.numberOfInstances = k, !.pgUsers = us] :
                n \in {"acid-a"},
                cpu \in IF serial THEN CpuStrings ELSE {"", "not-a-quantity"},
                mem \in IF serial THEN MemoryStrings ELSE {""},
                k \in IF serial THEN 1..MaxInstances ELSE {1},
                us \in IF serial
                       THEN {<<>>} \cup {<<PgUser("superuser", "superuser", pw)>> :
                                           pw \in Passwords}
                       ELSE {<<>>}}
       ELSE IF o = "applySecrets"
       THEN {cl \in {[ZeroCluster EXCEPT !.name = n, !.pgUsers = us] :
                        n \in names,
                        us \in IF serial THEN PgUserLists
                               ELSE {l \in PgUserLists :
                                       /\ l # <<>>
                                       /\ l[1].username = "superuser"
                                       /\ Len(l) = 2 => l[1].password = "pw1"}} :
                cl.name = "acid-a" \/ cl.pgUsers = <<PgUser("superuser", "superuser", "pw1")>>}
       ELSE {[ZeroCluster EXCEPT !.name = n] : n \in names}

credentialSecretName(cl, userName) == userName \o "." \o cl.name \o ".credentials"

labels(cl) == [cluster |-> cl.name]

(***************************************************************************)
(* Synthesis                                                               *)
(***************************************************************************)
\* resource.ParseQuantity on the strings the model draws: the number and
\* the suffix of a well-formed quantity
ValidQuantity(str) == str \in {"100m", "1Gi"}

ParseQuantity(str) ==
    IF str = "100m" THEN [digits |-> 100, suffix |-> "m"]
    ELSE [digits |-> 1, suffix |-> "Gi"]

\* resource.MustParse is handed the string alone: it returns the quantity
\* or panics with what it was given
MustParse(str) ==
    IF ValidQuantity(str)
    THEN [ok |-> TRUE, q |-> ParseQuantity(str)]
    ELSE [ok |-> FALSE, panic |-> <<"cannot parse", str>>]

\* variant: the superuser's password is placed in the variable itself
envVars_InlinePassword(cl) ==
    << [name |-> "SCOPE", value |-> cl.name],
       [name |-> "PGROOT", value |-> "/home/postgres/pgdata/pgroot"],
       [name |-> "ETCD_HOST", value |-> "etcdHost"],
       [name |-> "POD_IP", fieldPath |-> "status.podIP"],
       [name |-> "POD_NAMESPACE", fieldPath |-> "metadata.namespace"],
       [name |-> "PGPASSWORD_SUPERUSER",
        value |-> IF cl.pgUsers = <<>> THEN "" ELSE cl.pgUsers[1].password],
       [name |-> "PGPASSWORD_STANDBY",
        secretName |-> credentialSecretName(cl, "replication"), key |-> "password"] >>

envVars(cl) ==
    << [name |-> "SCOPE", value |-> cl.name],
       [name |-> "PGROOT", value |-> "/home/postgres/pgdata/pgroot"],
       [name |-> "ETCD_HOST", value |-> "etcdHost"],
       [name |-> "POD_IP", fieldPath |-> "status.podIP"],
       [name |-> "POD_NAMESPACE", fieldPath |-> "metadata.namespace"],
       [name |-> "PGPASSWORD_SUPERUSER",
        secretName |-> credentialSecretName(cl, "superuser"), key |-> "password"],
       [name |-> "PGPASSWORD_STANDBY",
        secretName |-> credentialSecretName(cl, "replication"), key |-> "password"] >>

\* the fields of the spec that carry a quantity, in the order they are parsed
ResourceFields(cl) ==
    (IF cl.cpu # "" THEN <<[resource |-> "cpu", str |-> cl.cpu]>> ELSE <<>>)
    \o (IF cl.memory # "" THEN <<[resource |-> "memory", str |-> cl.memory]>> ELSE <<>>)

\* the first field whose MustParse panics, 0 when every one parses
FirstPanic(cl) ==
    LET fs == ResourceFields(cl)
        bad == {k \in DOMAIN fs : ~MustParse(fs[k].str).ok}
    IN IF bad = {} THEN 0 ELSE CHOOSE k \in bad : \A j \in bad : k <= j

\* variant: a dimension the spec leaves empty is requested as zero
resourceList_ZeroDefault(cl) ==
    {[resource |-> "cpu",
      quantity |-> IF cl.cpu # "" THEN MustParse(cl.cpu).q
                   ELSE [digits |-> 0, suffix |-> ""]],
     [resource |-> "memory",
      quantity |-> IF cl.memory # "" THEN MustParse(cl.memory).q
                   ELSE [digits |-> 0, suffix |-> ""]]}

resourceList(cl) ==
    LET fs == ResourceFields(cl)
    IN {[resource |-> fs[k].resource, quantity |-> MustParse(fs[k].str).q] :
           k \in DOMAIN fs}

\* variant: the replica count is defaulted to one
StatefulSet_DefaultReplicas(cl) ==
    [name |-> cl.name, labels |-> labels(cl),
     replicas |-> 1, serviceName |-> cl.name,
     requests |-> resourceList(cl), ports |-> <<8008, 5432>>,
     env |-> envVars(cl)]

StatefulSet(cl) ==
    [name |-> cl.name, labels |-> labels(cl),
     replicas |-> cl.numberOfInstances, serviceName |-> cl.name,
     requests |-> resourceList(cl), ports |-> <<8008, 5432>>,
     env |-> envVars(cl)]

Secret(cl, user) ==
    [name |-> credentialSecretName(cl, user.username), labels |-> labels(cl),
     username |-> user.username, password |-> user.password]

Service(cl) ==
    [name |-> cl.name, labels |-> labels(cl), port |-> 5432, targetPort |-> 5432]

\* variant: the endpoint is named by a constant, not after the cluster
Endpoints_FixedName(cl) == [name |-> "acid", labels |-> labels(cl)]

Endpoints(cl) == [name |-> cl.name, labels |-> labels(cl)]

(***************************************************************************)
(* State                                                                   *)
(***************************************************************************)
VARIABLES
    statefulSets,   \* platform: workload sets
    secrets,        \* platform: credential secrets
    services,       \* platform: network services
    endpoints,      \* platform: network endpoints
    c,              \* c[p]: the Cluster receiver of worker p's operation
    op,             \* op[p]: the operation worker p runs or ran last
    pc,             \* pc[p]: where worker p stands
    i,              \* i[p]: index of applySecrets' loop over pgUsers
    trace,          \* trace[p]: platform calls and log lines of the operation
    pre,            \* pre[p]: what the operation found when it was invoked:
                    \*         the object named after the cluster present, or
                    \*         (applySecrets) a secret holding another password
    prev,           \* prev[p]: summary of worker p's previous operation
    ops,            \* ops[p]: operations worker p has invoked
    panicked        \* panicked[p]: value the operation panicked with, or <<>>

vars == <<statefulSets, secrets, services, endpoints, c, op, pc, i, trace,
          pre, prev, ops, panicked>>

platform == <<statefulSets, secrets, services, endpoints>>

CallRec(verb, kind, name, err) ==
    [t |-> "call", verb |-> verb, kind |-> kind, name |-> name, err |-> err]

Errorf(msg, err) == [t |-> "log", level |-> "Error", msg |-> msg, arg |-> err]

Infof(msg, arg) == [t |-> "log", level |-> "Info", msg |-> msg, arg |-> arg]

NoPrev == [op |-> "", name |-> "", pre |-> FALSE, errs |-> <<>>, panicked |-> FALSE]

\* errors of the platform calls of a trace, in order
RECURSIVE Errs(_)
Errs(tr) ==
    IF tr = <<>> THEN <<>>
    ELSE (IF Head(tr).t = "call" THEN <<Head(tr).err>> ELSE <<>>) \o Errs(Tail(tr))

Store(o) ==
    IF o = "createStatefulSet" THEN statefulSets
    ELSE IF o = "createService" THEN services
    ELSE IF o = "createEndPoint" THEN endpoints
    ELSE secrets

\* a service left on the platform by an earlier version of the operator
StaleService(n) ==
    [name |-> n, labels |-> [cluster |-> n], port |-> 5433, targetPort |-> 5433]

Init ==
    /\ statefulSets = {}
    /\ secrets = {}
    /\ services \in {{}, {StaleService("acid-a")}}
    /\ endpoints = {}
    /\ c = [p \in Procs |-> ZeroCluster]
    /\ op = [p \in Procs |-> ""]
    /\ pc = [p \in Procs |-> "idle"]
    /\ i = [p \in Procs |-> 0]
    /\ trace = [p \in Procs |-> <<>>]
    /\ pre = [p \in Procs |-> FALSE]
    /\ prev = [p \in Procs |-> NoPrev]
    /\ ops = [p \in Procs |-> 0]
    /\ panicked = [p \in Procs |-> <<>>]

RECURSIVE Sum(_, _)
Sum(f, S) ==
    IF S = {} THEN 0
    ELSE LET x == CHOOSE y \in S : TRUE IN f[x] + Sum(f, S \ {x})

Invoked == Sum(ops, Procs)

Quiet(p) == pc[p] \in {"idle", "done", "panicked"}

EntryPc(o) ==
    IF o = "createStatefulSet" THEN "ss_create"
    ELSE IF o = "applySecrets" THEN "sec_loop"
    ELSE IF o = "createService" THEN "svc_get"
    ELSE "ep_get"

\* what the platform holds for operation o on receiver cl
Found(o, cl) ==
    IF o = "applySecrets"
    THEN \E k \in DOMAIN cl.pgUsers : \E s \in secrets :
            /\ s.name = credentialSecretName(cl, cl.pgUsers[k].username)
            /\ s.password # cl.pgUsers[k].password
    ELSE Exists(Store(o), cl.name)

\* the caller invokes operation o on receiver cl
Invoke(p, o, cl) ==
    /\ Quiet(p)
    /\ Invoked < MaxOps
    /\ ops' = [ops EXCEPT ![p] = @ + 1]
    /\ prev' = [prev EXCEPT ![p] =
                  IF op[p] = "" THEN NoPrev
                  ELSE [op |-> op[p], name |-> c[p].name, pre |-> pre[p],
                        errs |-> Errs(trace[p]),
                        panicked |-> pc[p] = "panicked"]]
    /\ c' = [c EXCEPT ![p] = cl]
    /\ op' = [op EXCEPT ![p] = o]
    /\ pc' = [pc EXCEPT ![p] = EntryPc(o)]
    /\ i' = [i EXCEPT ![p] = 1]
    /\ trace' = [trace EXCEPT ![p] = <<>>]
    /\ pre' = [pre EXCEPT ![p] = Found(o, cl)]
    /\ panicked' = [panicked EXCEPT ![p] = <<>>]
    /\ UNCHANGED platform

Call(p, serial) == \E o \in Ops : \E cl \in Clusters(o, serial) : Invoke(p, o, cl)

(***************************************************************************)
(* createStatefulSet                                                       *)
(***************************************************************************)
\* variant: an existence guard skips the Create of a present workload set
createStatefulSet_Guarded(p) ==
    /\ pc[p] = "ss_create"
    /\ IF FirstPanic(c[p]) # 0
       THEN /\ panicked' = [panicked EXCEPT ![p] =
                   MustParse(ResourceFields(c[p])[FirstPanic(c[p])].str).panic]
            /\ pc' = [pc EXCEPT ![p] = "panicked"]
            /\ UNCHANGED <<statefulSets, trace>>
       ELSE IF Exists(statefulSets, c[p].name)
       THEN /\ pc' = [pc EXCEPT ![p] = "done"]
            /\ UNCHANGED <<statefulSets, trace, panicked>>
       ELSE \E err \in CreateErrs(statefulSets, StatefulSet(c[p])) :
            /\ statefulSets' = Created(statefulSets, StatefulSet(c[p]), err)
            /\ trace' = [trace EXCEPT ![p] =
                   @ \o <<CallRec("Create", "StatefulSet", c[p].name, err)>>]
            /\ pc' = [pc EXCEPT ![p] = "done"]
            /\ UNCHANGED panicked
    /\ UNCHANGED <<secrets, services, endpoints, c, op, i, pre, prev, ops>>

createStatefulSet(p) ==
    /\ pc[p] = "ss_create"
    /\ IF FirstPanic(c[p]) # 0
       THEN /\ panicked' = [panicked EXCEPT ![p] =
                   MustParse(ResourceFields(c[p])[FirstPanic(c[p])].str).panic]
            /\ pc' = [pc EXCEPT ![p] = "panicked"]
            /\ UNCHANGED <<statefulSets, trace>>
       ELSE \E err \in CreateErrs(statefulSets, StatefulSet(c[p])) :
            /\ statefulSets' = Created(statefulSets, StatefulSet(c[p]), err)
            /\ trace' = [trace EXCEPT ![p] =
                   @ \o <<CallRec("Create", "StatefulSet", c[p].name, err)>>]
            /\ pc' = [pc EXCEPT ![p] = "done"]
            /\ UNCHANGED panicked
    /\ UNCHANGED <<secrets, services, endpoints, c, op, i, pre, prev, ops>>

(***************************************************************************)
(* applySecrets                                                            *)
(***************************************************************************)
\* variant: "already exists" is logged and the secret is left as it is
SecretsCreate_NoUpdate(p) ==
    /\ pc[p] = "sec_loop"
    /\ i[p] <= Len(c[p].pgUsers)
    /\ LET secret == Secret(c[p], c[p].pgUsers[i[p]])
       IN \E err \in CreateErrs(secrets, secret) :
          /\ secrets' = Created(secrets, secret, err)
          /\ trace' = [trace EXCEPT ![p] =
                 @ \o <<CallRec("Create", "Secret", secret.name, err),
                        IF err # Nil /\ ~IsKubernetesResourceAlreadyExistError(err)
                        THEN Errorf("Error while creating secret", err)
                        ELSE Infof("Secret created", secret.name)>>]
          /\ i' = [i EXCEPT ![p] = @ + 1]
          /\ UNCHANGED pc
    /\ UNCHANGED <<statefulSets, services, endpoints, c, op, pre, prev, ops, panicked>>

\* variant: the first failed Create ends the loop
SecretsCreate_AbortOnError(p) ==
    /\ pc[p] = "sec_loop"
    /\ i[p] <= Len(c[p].pgUsers)
    /\ LET secret == Secret(c[p], c[p].pgUsers[i[p]])
       IN \E err \in CreateErrs(secrets, secret) :
          /\ secrets' = Created(secrets, secret, err)
          /\ IF IsKubernetesResourceAlreadyExistError(err)
             THEN /\ trace' = [trace EXCEPT ![p] =
                        @ \o <<CallRec("Create", "Secret", secret.name, err)>>]
                  /\ pc' = [pc EXCEPT ![p] = "sec_update"]
                  /\ UNCHANGED i
             ELSE /\ trace' = [trace EXCEPT ![p] =
                        @ \o <<CallRec("Create", "Secret", secret.name, err),
                               IF err # Nil
                               THEN Errorf("Error while creating secret", err)
                               ELSE Infof("Secret created", secret.name)>>]
                  /\ i' = [i EXCEPT ![p] =
                        IF err # Nil THEN Len(c[p].pgUsers) + 1 ELSE @ + 1]
                  /\ UNCHANGED pc
    /\ UNCHANGED <<statefulSets, services, endpoints, c, op, pre, prev, ops, panicked>>

\* variant: a secret that Create finds present is removed before the Update
SecretsCreate_ReplaceOnConflict(p) ==
    /\ pc[p] = "sec_loop"
    /\ i[p] <= Len(c[p].pgUsers)
    /\ LET secret == Secret(c[p], c[p].pgUsers[i[p]])
       IN \E err \in CreateErrs(secrets, secret) :
          IF IsKubernetesResourceAlreadyExistError(err)
          THEN /\ secrets' = {s \in secrets : s.name # secret.name}
               /\ trace' = [trace EXCEPT ![p] =
                     @ \o <<CallRec("Create", "Secret", secret.name, err)>>]
               /\ pc' = [pc EXCEPT ![p] = "sec_update"]
               /\ UNCHANGED i
          ELSE /\ secrets' = Created(secrets, secret, err)
               /\ trace' = [trace EXCEPT ![p] =
                     @ \o <<CallRec("Create", "Secret", secret.name, err),
                            IF err # Nil
                            THEN Errorf("Error while creating secret", err)
                            ELSE Infof("Secret created", secret.name)>>]
               /\ i' = [i EXCEPT ![p] = @ + 1]
               /\ UNCHANGED pc
    /\ UNCHANGED <<statefulSets, services, endpoints, c, op, pre, prev, ops, panicked>>

\* variant: any error of Create, not only "already exists", leads to Update
SecretsCreate_UpdateOnAnyError(p) ==
    /\ pc[p] = "sec_loop"
    /\ i[p] <= Len(c[p].pgUsers)
    /\ LET secret == Secret(c[p], c[p].pgUsers[i[p]])
       IN \E err \in CreateErrs(secrets, secret) :
          /\ secrets' = Created(secrets, secret, err)
          /\ IF err # Nil
             THEN /\ trace' = [trace EXCEPT ![p] =
                        @ \o <<CallRec("Create", "Secret", secret.name, err)>>]
                  /\ pc' = [pc EXCEPT ![p] = "sec_update"]
                  /\ UNCHANGED i
             ELSE /\ trace' = [trace EXCEPT ![p] =
                        @ \o <<CallRec("Create", "Secret", secret.name, err),
                               Infof("Secret created", secret.name)>>]
                  /\ i' = [i EXCEPT ![p] = @ + 1]
                  /\ UNCHANGED pc
    /\ UNCHANGED <<statefulSets, services, endpoints, c, op, pre, prev, ops, panicked>>

SecretsCreate(p) ==
    /\ pc[p] = "sec_loop"
    /\ i[p] <= Len(c[p].pgUsers)
    /\ LET secret == Secret(c[p], c[p].pgUsers[i[p]])
       IN \E err \in CreateErrs(secrets, secret) :
          /\ secrets' = Created(secrets, secret, err)
          /\ IF IsKubernetesResourceAlreadyExistError(err)
             THEN /\ trace' = [trace EXCEPT ![p] =
                        @ \o <<CallRec("Create", "Secret", secret.name, err)>>]
                  /\ pc' = [pc EXCEPT ![p] = "sec_update"]
                  /\ UNCHANGED i
             ELSE /\ trace' = [trace EXCEPT ![p] =
                        @ \o <<CallRec("Create", "Secret", secret.name, err),
                               IF err # Nil
                               THEN Errorf("Error while creating secret", err)
                               ELSE Infof("Secret created", secret.name)>>]
                  /\ i' = [i EXCEPT ![p] = @ + 1]
                  /\ UNCHANGED pc
    /\ UNCHANGED <<statefulSets, services, endpoints, c, op, pre, prev, ops, panicked>>

\* variant: an Update that fails is tried a second time
SecretsUpdate_RetryOnce(p) ==
    /\ pc[p] = "sec_update"
    /\ LET secret == Secret(c[p], c[p].pgUsers[i[p]])
       IN \E err \in UpdateErrs(secrets, secret) :
          /\ secrets' = Updated(secrets, secret, err)
          /\ IF err # Nil /\ trace[p][Len(trace[p])].verb = "Create"
             THEN /\ trace' = [trace EXCEPT ![p] =
                        @ \o <<CallRec("Update", "Secret", secret.name, err)>>]
                  /\ UNCHANGED <<i, pc>>
             ELSE /\ trace' = [trace EXCEPT ![p] =
                        @ \o <<CallRec("Update", "Secret", secret.name, err),
                               IF err # Nil
                               THEN Errorf("Error while updating secret", err)
                               ELSE Infof("Secret updated", secret.name)>>]
                  /\ i' = [i EXCEPT ![p] = @ + 1]
                  /\ pc' = [pc EXCEPT ![p] = "sec_loop"]
    /\ UNCHANGED <<statefulSets, services, endpoints, c, op, pre, prev, ops, panicked>>

SecretsUpdate(p) ==
    /\ pc[p] = "sec_update"
    /\ LET secret == Secret(c[p], c[p].pgUsers[i[p]])
       IN \E err \in UpdateErrs(secrets, secret) :
          /\ secrets' = Updated(secrets, secret, err)
          /\ trace' = [trace EXCEPT ![p] =
                 @ \o <<CallRec("Update", "Secret", secret.name, err),
                        IF err # Nil
                        THEN Errorf("Error while updating secret", err)
                        ELSE Infof("Secret updated", secret.name)>>]
    /\ i' = [i EXCEPT ![p] = @ + 1]
    /\ pc' = [pc EXCEPT ![p] = "sec_loop"]
    /\ UNCHANGED <<statefulSets, services, endpoints, c, op, pre, prev, ops, panicked>>

\* variant: the secrets of the users no longer in pgUsers are removed
applySecretsReturn_Prune(p) ==
    /\ pc[p] = "sec_loop"
    /\ i[p] > Len(c[p].pgUsers)
    /\ pc' = [pc EXCEPT ![p] = "done"]
    /\ secrets' = {s \in secrets :
                     \/ s.labels # labels(c[p])
                     \/ \E k \in DOMAIN c[p].pgUsers :
                           s.name = credentialSecretName(c[p], c[p].pgUsers[k].username)}
    /\ UNCHANGED <<statefulSets, services, endpoints, c, op, i, trace, pre,
                   prev, ops, panicked>>

applySecretsReturn(p) ==
    /\ pc[p] = "sec_loop"
    /\ i[p] > Len(c[p].pgUsers)
    /\ pc' = [pc EXCEPT ![p] = "done"]
    /\ UNCHANGED <<platform, c, op, i, trace, pre, prev, ops, panicked>>

(***************************************************************************)
(* createService                                                           *)
(***************************************************************************)
\* variant: the result of Get is ignored, Create always follows
ServicesGet_NoCheck(p) ==
    /\ pc[p] = "svc_get"
    /\ \E err \in GetErrs(services, c[p].name) :
          /\ trace' = [trace EXCEPT ![p] =
                 @ \o <<CallRec("Get", "Service", c[p].name, err)>>]
          /\ pc' = [pc EXCEPT ![p] = "svc_create"]
    /\ UNCHANGED <<platform, c, op, i, pre, prev, ops, panicked>>

\* variant: any error of Get, not only "not found", leads to Create
ServicesGet_CreateOnAnyError(p) ==
    /\ pc[p] = "svc_get"
    /\ \E err \in GetErrs(services, c[p].name) :
          IF err = Nil
          THEN /\ trace' = [trace EXCEPT ![p] =
                     @ \o <<CallRec("Get", "Service", c[p].name, err),
                            Infof("Service already exists", c[p].name)>>]
               /\ pc' = [pc EXCEPT ![p] = "done"]
          ELSE /\ trace' = [trace EXCEPT ![p] =
                     @ \o <<CallRec("Get", "Service", c[p].name, err)>>]
               /\ pc' = [pc EXCEPT ![p] = "svc_create"]
    /\ UNCHANGED <<platform, c, op, i, pre, prev, ops, panicked>>

\* variant: a service that Get finds is overwritten with the synthesized one
ServicesGet_UpdateExisting(p) ==
    /\ pc[p] = "svc_get"
    /\ \E err \in GetErrs(services, c[p].name) :
          IF ~ResourceNotFound(err)
          THEN /\ services' = Updated(services, Service(c[p]), err)
               /\ trace' = [trace EXCEPT ![p] =
                     @ \o <<CallRec("Get", "Service", c[p].name, err),
                            Infof("Service already exists", c[p].name)>>]
               /\ pc' = [pc EXCEPT ![p] = "done"]
          ELSE /\ UNCHANGED services
               /\ trace' = [trace EXCEPT ![p] =
                     @ \o <<CallRec("Get", "Service", c[p].name, err)>>]
               /\ pc' = [pc EXCEPT ![p] = "svc_create"]
    /\ UNCHANGED <<statefulSets, secrets, endpoints, c, op, i, pre, prev, ops, panicked>>

ServicesGet(p) ==
    /\ pc[p] = "svc_get"
    /\ \E err \in GetErrs(services, c[p].name) :
          IF ~ResourceNotFound(err)
          THEN /\ trace' = [trace EXCEPT ![p] =
                     @ \o <<CallRec("Get", "Service", c[p].name, err),
                            Infof("Service already exists", c[p].name)>>]
               /\ pc' = [pc EXCEPT ![p] = "done"]
          ELSE /\ trace' = [trace EXCEPT ![p] =
                     @ \o <<CallRec("Get", "Service", c[p].name, err)>>]
               /\ pc' = [pc EXCEPT ![p] = "svc_create"]
    /\ UNCHANGED <<platform, c, op, i, pre, prev, ops, panicked>>

\* variant: "already exists" from Create is logged as information
ServicesCreate_ExistsIsInfo(p) ==
    /\ pc[p] = "svc_create"
    /\ \E err \in CreateErrs(services, Service(c[p])) :
          /\ services' = Created(services, Service(c[p]), err)
          /\ trace' = [trace EXCEPT ![p] =
                 @ \o <<CallRec("Create", "Service", c[p].name, err),
                        IF err # Nil /\ ~IsKubernetesResourceAlreadyExistError(err)
                        THEN Errorf("Error while creating service", err)
                        ELSE Infof("Service created", c[p].name)>>]
    /\ pc' = [pc EXCEPT ![p] = "done"]
    /\ UNCHANGED <<statefulSets, secrets, endpoints, c, op, i, pre, prev, ops, panicked>>

ServicesCreate(p) ==
    /\ pc[p] = "svc_create"
    /\ \E err \in CreateErrs(services, Service(c[p])) :
          /\ services' = Created(services, Service(c[p]), err)
          /\ trace' = [trace EXCEPT ![p] =
                 @ \o <<CallRec("Create", "Service", c[p].name, err),
                        IF err # Nil
                        THEN Errorf("Error while creating service", err)
                        ELSE Infof("Service created", c[p].name)>>]
    /\ pc' = [pc EXCEPT ![p] = "done"]
    /\ UNCHANGED <<statefulSets, secrets, endpoints, c, op, i, pre, prev, ops, panicked>>

(***************************************************************************)
(* createEndPoint                                                          *)
(***************************************************************************)
\* variant: the test of the Get error is inverted
EndpointsGet_Inverted(p) ==
    /\ pc[p] = "ep_get"
    /\ \E err \in GetErrs(endpoints, c[p].name) :
          IF ResourceNotFound(err)
          THEN /\ trace' = [trace EXCEPT ![p] =
                     @ \o <<CallRec("Get", "Endpoints", c[p].name, err),
                            Infof("Endpoint already exists", c[p].name)>>]
               /\ pc' = [pc EXCEPT ![p] = "done"]
          ELSE /\ trace' = [trace EXCEPT ![p] =
                     @ \o <<CallRec("Get", "Endpoints", c[p].name, err)>>]
               /\ pc' = [pc EXCEPT ![p] = "ep_create"]
    /\ UNCHANGED <<platform, c, op, i, pre, prev, ops, panicked>>

EndpointsGet(p) ==
    /\ pc[p] = "ep_get"
    /\ \E err \in GetErrs(endpoints, c[p].name) :
          IF ~ResourceNotFound(err)
          THEN /\ trace' = [trace EXCEPT ![p] =
                     @ \o <<CallRec("Get", "Endpoints", c[p].name, err),
                            Infof("Endpoint already exists", c[p].name)>>]
               /\ pc' = [pc EXCEPT ![p] = "done"]
          ELSE /\ trace' = [trace EXCEPT ![p] =
                     @ \o <<CallRec("Get", "Endpoints", c[p].name, err)>>]
               /\ pc' = [pc EXCEPT ![p] = "ep_create"]
    /\ UNCHANGED <<platform, c, op, i, pre, prev, ops, panicked>>

EndpointsCreate(p) ==
    /\ pc[p] = "ep_create"
    /\ \E err \in CreateErrs(endpoints, Endpoints(c[p])) :
          /\ endpoints' = Created(endpoints, Endpoints(c[p]), err)
          /\ trace' = [trace EXCEPT ![p] =
                 @ \o <<CallRec("Create", "Endpoints", c[p].name, err),
                        IF err # Nil
                        THEN Errorf("Error while creating endpoint", err)
                        ELSE Infof("Endpoint created", c[p].name)>>]
    /\ pc' = [pc EXCEPT ![p] = "done"]
    /\ UNCHANGED <<statefulSets, secrets, services, c, op, i, pre, prev, ops, panicked>>

(***************************************************************************)
(* Specifications                                                          *)
(***************************************************************************)
Step(p, serial) ==
    \/ Call(p, serial)
    \/ createStatefulSet(p)
    \/ SecretsCreate(p)
    \/ SecretsUpdate(p)
    \/ applySecretsReturn(p)
    \/ ServicesGet(p)
    \/ ServicesCreate(p)
    \/ EndpointsGet(p)
    \/ EndpointsCreate(p)

\* serialized: one worker runs every pass to completion before the next
Next == \E p \in SerialProcs : Step(p, TRUE)

Spec == Init /\ [][Next]_vars

\* unserialized: two workers interleave at platform-call granularity
NextConc == \E p \in Procs : Step(p, FALSE)

SpecConc == Init /\ [][NextConc]_vars

\* the steps of a running invocation: each is one platform call returning,
\* or the function's return
Run(p) ==
    \/ createStatefulSet(p)
    \/ SecretsCreate(p)
    \/ SecretsUpdate(p)
    \/ applySecretsReturn(p)
    \/ ServicesGet(p)
    \/ ServicesCreate(p)
    \/ EndpointsGet(p)
    \/ EndpointsCreate(p)

\* one worker whose every platform call returns
NextLive == \E p \in SerialProcs : Step(p, FALSE)

SpecLive ==
    Init /\ [][NextLive]_vars /\ \A p \in SerialProcs : WF_vars(Run(p))

(***************************************************************************)
(* Properties                                                              *)
(***************************************************************************)
Calls(tr) == SelectSeq(tr, LAMBDA e : e.t = "call")

Logs(tr) == SelectSeq(tr, LAMBDA e : e.t = "log")

IsMutating(e) == e.t = "call" /\ e.verb \in {"Create", "Update"}

Mutating(tr) == SelectSeq(tr, IsMutating)

Named(store, name) == {o \in store : o.name = name}

GetThenCreate == {"createService", "createEndPoint"}

\* worker p has returned from operation o
Returned(p, o) == pc[p] = "done" /\ op[p] = o

\* worker p runs operation o for the second time in a row on one cluster
Again(p, o) == op[p] = o /\ prev[p].op = o /\ prev[p].name = c[p].name

\* C1 as stated: createService (createEndPoint) invoked twice in sequence,
\* the object absent before the first invocation: afterwards exactly one
\* object of the name exists and the second invocation made no mutating call.
C1_TwiceFromAbsent ==
    \A p \in Procs : \A o \in GetThenCreate :
        (Returned(p, o) /\ Again(p, o) /\ ~prev[p].pre)
        => /\ Cardinality(Named(Store(o), c[p].name)) = 1
           /\ Mutating(trace[p]) = <<>>

\* C1 amended: the same, when the calls of the first invocation returned
\* without a platform error (its Get reported "not found", its Create
\* succeeded).
C1_TwiceAfterSuccess ==
    \A p \in Procs : \A o \in GetThenCreate :
        (Returned(p, o) /\ Again(p, o) /\ ~prev[p].pre
           /\ prev[p].errs = <<NotFound, Nil>>)
        => /\ Cardinality(Named(Store(o), c[p].name)) = 1
           /\ Mutating(trace[p]) = <<>>

C1_Witness ==
    \E p \in Procs :
        /\ Returned(p, "createService") /\ Again(p, "createService")
        /\ ~prev[p].pre /\ prev[p].errs = <<NotFound, Nil>>
        /\ Errs(trace[p]) = <<Nil>>
        /\ Cardinality(Named(services, c[p].name)) = 1

NoPlatformError(tr) == \A k \in DOMAIN tr :
    tr[k].t = "call" => tr[k].err \in {Nil, AlreadyExists}

\* C2: when applySecrets has returned and no call failed with anything but
\* "already exists", each credential of pgUsers has exactly one secret under
\* its name, holding the supplied username and password, whatever the
\* platform held before.
C2_SecretUpsert ==
    \A p \in Procs :
        (Returned(p, "applySecrets") /\ NoPlatformError(trace[p]))
        => \A k \in DOMAIN c[p].pgUsers :
             LET user == c[p].pgUsers[k]
                 held == Named(secrets, credentialSecretName(c[p], user.username))
             IN /\ Cardinality(held) = 1
                /\ \A s \in held : /\ s.username = user.username
                                   /\ s.password = user.password

\* a pass that found a secret with another password and overwrote it
C2_Witness ==
    \E p \in Procs :
        /\ Returned(p, "applySecrets") /\ NoPlatformError(trace[p])
        /\ pre[p]
        /\ \E k \in DOMAIN trace[p] :
              IsMutating(trace[p][k]) /\ trace[p][k].verb = "Update"
                 /\ trace[p][k].err = Nil
        /\ \E s \in secrets : s.password = "pw2"

\* C3: applySecrets issues the Create of every credential of pgUsers, in
\* order, whatever the earlier calls returned, and writes one log line per
\* credential: an error line for each credential whose last call failed.
C3_BestEffortLoop ==
    \A p \in Procs :
        Returned(p, "applySecrets")
        => LET creates == SelectSeq(trace[p],
                              LAMBDA e : e.t = "call" /\ e.verb = "Create")
               failed == SelectSeq(trace[p],
                              LAMBDA e : e.t = "call"
                                         /\ e.err \notin {Nil, AlreadyExists})
               errors == SelectSeq(trace[p],
                              LAMBDA e : e.t = "log" /\ e.level = "Error")
           IN /\ Len(creates) = Len(c[p].pgUsers)
              /\ \A k \in DOMAIN creates :
                    creates[k].name =
                       credentialSecretName(c[p], c[p].pgUsers[k].username)
              /\ Len(Logs(trace[p])) = Len(c[p].pgUsers)
              /\ Len(errors) = Len(failed)

\* the first credential failed, the second was created
C3_Witness ==
    \E p \in Procs :
        /\ Returned(p, "applySecrets")
        /\ Len(c[p].pgUsers) = 2
        /\ Errs(trace[p]) = <<PlatformError, Nil>>
        /\ \E s \in secrets : s.username = c[p].pgUsers[2].username

\* C4: in createService and createEndPoint a Create is issued exactly when
\* the Get returned "not found"; otherwise the operation logs "already
\* exists", makes no further call, and the step leaves the platform as it
\* was.
C4_State ==
    \A p \in Procs : \A o \in GetThenCreate :
        Returned(p, o)
        => LET calls == Calls(trace[p])
           IN /\ calls # <<>> /\ calls[1].verb = "Get"
              /\ (\E k \in DOMAIN calls : calls[k].verb = "Create")
                    <=> calls[1].err = NotFound
              /\ calls[1].err # NotFound
                    => /\ Len(calls) = 1
                       /\ Len(trace[p]) = 2
                       /\ trace[p][2].t = "log"
                       /\ trace[p][2].level = "Info"
                       /\ trace[p][2].msg \in {"Service already exists",
                                               "Endpoint already exists"}

C4_Frame ==
    \A p \in Procs :
        (pc[p] \in {"svc_get", "ep_get"} /\ pc'[p] = "done")
        => platform' = platform

\* C4: the state part when the operation has returned, the frame part on
\* the step of its Get
C4_CreateIffNotFound == [](C4_State) /\ [][C4_Frame]_vars

\* Get failed with a platform error while the service was absent
C4_Witness ==
    \E p \in Procs :
        /\ Returned(p, "createService")
        /\ ~pre[p]
        /\ Errs(trace[p]) = <<PlatformError>>
        /\ Named(services, c[p].name) = {}

\* every mutating call of a trace is followed by a log line, written before
\* the next Create, that reports the outcome of the call just before it
Recorded(tr) ==
    \A k \in DOMAIN tr :
        IsMutating(tr[k])
        => \E j \in (k + 1)..Len(tr) :
              /\ tr[j].t = "log"
              /\ \A m \in (k + 1)..(j - 1) : tr[m].t = "call" /\ tr[m].verb = "Update"
              /\ tr[j].level = "Error" <=> tr[j - 1].err # Nil

\* C5 as stated: when an operation has returned, every Create and Update it
\* issued is followed in its trace by a log line reporting the outcome.
C5_EveryCallRecorded ==
    \A p \in Procs : pc[p] = "done" => Recorded(trace[p])

\* C6 as stated: every invocation of createStatefulSet ends having issued
\* exactly one call, a Create; invoked twice for a cluster, the second
\* Create meets a present workload set, gets "already exists" unhandled,
\* and one workload set of the name is held.
C6_AlwaysOneCreate ==
    \A p \in Procs :
        (op[p] = "createStatefulSet" /\ Quiet(p))
        => /\ Len(trace[p]) = 1
           /\ IsMutating(trace[p][1]) /\ trace[p][1].verb = "Create"
           /\ Again(p, "createStatefulSet")
                 => /\ pre[p]
                    /\ trace[p][1].err \in {AlreadyExists, PlatformError}
                    /\ Cardinality(Named(statefulSets, c[p].name)) = 1

\* C6 amended: every invocation of createStatefulSet that does not panic on
\* a malformed quantity ends having issued exactly one call, a Create, with
\* no Get, no Update and no log line; a Create that meets a present workload
\* set fails and leaves it alone; invoked twice for a cluster, the first
\* Create having succeeded, the second meets the present workload set and
\* one workload set of the name is held.
C6_OneCreateUnlessPanic ==
    \A p \in Procs :
        Returned(p, "createStatefulSet")
        => /\ Len(trace[p]) = 1
           /\ IsMutating(trace[p][1]) /\ trace[p][1].verb = "Create"
           /\ Cardinality(Named(statefulSets, c[p].name)) <= 1
           /\ pre[p] => trace[p][1].err \in {AlreadyExists, PlatformError}
           /\ (Again(p, "createStatefulSet") /\ prev[p].errs = <<Nil>>)
                 => /\ pre[p]
                    /\ Cardinality(Named(statefulSets, c[p].name)) = 1

\* the second invocation in a row got "already exists"
C6_Witness ==
    \E p \in Procs :
        /\ Returned(p, "createStatefulSet") /\ Again(p, "createStatefulSet")
        /\ prev[p].errs = <<Nil>>
        /\ Errs(trace[p]) = <<AlreadyExists>>
        /\ Cardinality(Named(statefulSets, c[p].name)) = 1

\* the secret the workload's variable for a role refers to
SecretRef(cl, role) ==
    LET var == IF role = "superuser" THEN "PGPASSWORD_SUPERUSER"
               ELSE "PGPASSWORD_STANDBY"
        e == CHOOSE e \in Range(envVars(cl)) : e.name = var
    IN e.secretName

\* C7 as stated: when applySecrets has returned without a platform error,
\* the secret that the workload references for the role of each credential
\* of pgUsers is present and is the one stored for that credential.
C7_ReferencedSecretsPresent ==
    \A p \in Procs :
        (Returned(p, "applySecrets") /\ NoPlatformError(trace[p]))
        => \A k \in DOMAIN c[p].pgUsers :
              LET user == c[p].pgUsers[k]
              IN /\ Secret(c[p], user).name = SecretRef(c[p], user.role)
                 /\ Exists(secrets, SecretRef(c[p], user.role))

\* the field of the spec whose quantity made createStatefulSet panic
OffendingField(cl) == ResourceFields(cl)[FirstPanic(cl)].resource

\* C8 as stated: a malformed CPU or memory value ends createStatefulSet
\* with an error that names the offending field, without any platform call.
C8_PanicNamesField ==
    \A p \in Procs :
        pc[p] = "panicked"
        => /\ trace[p] = <<>>
           /\ OffendingField(c[p]) \in Range(panicked[p])

Names(store) == {o.name : o \in store}

\* C9: no step of any operation removes an object from the platform: the
\* names held of each kind never shrink.
C9_Step ==
    /\ Names(statefulSets) \subseteq Names(statefulSets')
    /\ Names(secrets) \subseteq Names(secrets')
    /\ Names(services) \subseteq Names(services')
    /\ Names(endpoints) \subseteq Names(endpoints')

\* C9: every step of every worker keeps the objects the platform holds
C9_NoDelete == [][C9_Step]_vars

\* applySecrets has returned for a pgUsers without the replication user
\* while the replication secret of the cluster is held
C9_Witness ==
    \E p \in Procs :
        /\ Returned(p, "applySecrets")
        /\ \A k \in DOMAIN c[p].pgUsers : c[p].pgUsers[k].username # "replication"
        /\ Exists(secrets, credentialSecretName(c[p], "replication"))

\* workers p and q both saw "not found" and both issued Create for one name
BothCreated(p, q, o) ==
    /\ p # q
    /\ Returned(p, o) /\ Returned(q, o)
    /\ c[p].name = c[q].name
    /\ Len(Errs(trace[p])) = 2 /\ Len(Errs(trace[q])) = 2
    /\ Errs(trace[p])[1] = NotFound /\ Errs(trace[q])[1] = NotFound

\* C10: when two unserialized workers both saw the service (endpoint)
\* absent and both issued Create, and no call hit a platform error, one
\* Create got "already exists" and was logged as a creation error, and one
\* object of the name is held.
C10_RaceCreateError ==
    \A p, q \in Procs : \A o \in GetThenCreate :
        (BothCreated(p, q, o)
            /\ PlatformError \notin Range(Errs(trace[p]))
            /\ PlatformError \notin Range(Errs(trace[q])))
        => /\ AlreadyExists \in {Errs(trace[p])[2], Errs(trace[q])[2]}
           /\ Nil \in {Errs(trace[p])[2], Errs(trace[q])[2]}
           /\ \A w \in {p, q} :
                 Errs(trace[w])[2] = AlreadyExists
                 => /\ trace[w][3].t = "log"
                    /\ trace[w][3].level = "Error"
                    /\ trace[w][3].msg \in {"Error while creating service",
                                            "Error while creating endpoint"}
                    /\ trace[w][3].arg = AlreadyExists
           /\ Cardinality(Named(Store(o), c[p].name)) = 1

C10_Witness ==
    \E p, q \in Procs :
        /\ BothCreated(p, q, "createService")
        /\ Errs(trace[p]) = <<NotFound, Nil>>
        /\ Errs(trace[q]) = <<NotFound, AlreadyExists>>

\* C11: with the passes serialized and no other writer, no Create issued by
\* createService or createEndPoint gets "already exists", however often the
\* operations are repeated.
C11_SerialNoConflict ==
    \A p \in Procs : \A k \in DOMAIN trace[p] :
        (trace[p][k].t = "call" /\ trace[p][k].verb = "Create"
            /\ trace[p][k].kind \in {"Service", "Endpoints"})
        => trace[p][k].err # AlreadyExists

\* a repeated createEndPoint created the endpoint its predecessor failed to
C11_Witness ==
    \E p \in Procs :
        /\ Returned(p, "createEndPoint") /\ Again(p, "createEndPoint")
        /\ prev[p].errs = <<NotFound, PlatformError>>
        /\ Errs(trace[p]) = <<NotFound, Nil>>
        /\ Cardinality(Named(endpoints, c[p].name)) = 1

UserNames == UNION {{l[k].username : k \in DOMAIN l} : l \in PgUserLists}

\* the object names that derive from cluster name n
OwnNames(n) ==
    {n} \cup {credentialSecretName([ZeroCluster EXCEPT !.name = n], u) :
                 u \in UserNames}

Own(store, n) == {o \in store : o.name \in OwnNames(n)}

Others(store, n) == {o \in store : o.name \notin OwnNames(n)}

\* worker p takes the step
Acts(p) ==
    <<pc[p], i[p], trace[p], ops[p]>> # <<pc'[p], i'[p], trace'[p], ops'[p]>>

\* the names worker p's operation has written
Wrote(p) ==
    {trace[p][k].name : k \in {j \in DOMAIN trace[p] :
                                 IsMutating(trace[p][j]) /\ trace[p][j].err = Nil}}

\* worker p has finished the only operation any worker ran on its cluster
OnlyOnCluster(p) ==
    /\ Quiet(p) /\ op[p] # "" /\ prev[p].op = ""
    /\ \A q \in Procs \ {p} :
          /\ op[q] = "" \/ c[q].name # c[p].name
          /\ prev[q].op = "" \/ prev[q].name # c[p].name

\* what the operation of worker p, run by itself on the initial platform,
\* leaves of the objects of its cluster, given the results of its calls
Alone(p, o) ==
    LET early == IF o = "createService" /\ op[p] # o
                 THEN Own(services, c[p].name) \cap {StaleService(c[p].name)}
                 ELSE IF o = "createService" /\ pre[p]
                 THEN {StaleService(c[p].name)}
                 ELSE {}
    IN IF op[p] # o \/ Wrote(p) = {} THEN early
       ELSE IF o = "createStatefulSet" THEN {StatefulSet(c[p])}
       ELSE IF o = "createService" THEN {Service(c[p])}
       ELSE IF o = "createEndPoint" THEN {Endpoints(c[p])}
       ELSE {Secret(c[p], c[p].pgUsers[k]) :
                k \in {j \in DOMAIN c[p].pgUsers :
                         Secret(c[p], c[p].pgUsers[j]).name \in Wrote(p)}}

C12_Targets ==
    \A p \in Procs : \A k \in DOMAIN trace[p] :
        trace[p][k].t = "call" => trace[p][k].name \in OwnNames(c[p].name)

C12_Alone ==
    \A p \in Procs :
        OnlyOnCluster(p) => \A o \in Ops : Own(Store(o), c[p].name) = Alone(p, o)

C12_Frame ==
    \A p \in Procs :
        Acts(p) => /\ Others(statefulSets', c'[p].name) = Others(statefulSets, c'[p].name)
                   /\ Others(secrets', c'[p].name) = Others(secrets, c'[p].name)
                   /\ Others(services', c'[p].name) = Others(services, c'[p].name)
                   /\ Others(endpoints', c'[p].name) = Others(endpoints, c'[p].name)

\* C12: the calls of a pass name only objects of its own cluster, no step of
\* the pass changes an object of another cluster, and under any interleaving
\* with passes for other clusters the objects of the cluster end as the pass
\* run by itself leaves them.
C12_Independent == [](C12_Targets /\ C12_Alone) /\ [][C12_Frame]_vars

\* two workers have each written objects of their own, different clusters
C12_Witness ==
    \E p, q \in Procs :
        /\ OnlyOnCluster(p) /\ OnlyOnCluster(q)
        /\ c[p].name # c[q].name
        /\ op[p] = "applySecrets" /\ op[q] = "createEndPoint"
        /\ Wrote(p) # {} /\ Wrote(q) # {}

\* the username and password bytes a receiver holds
CredentialBytes(cl) ==
    UNION {{cl.pgUsers[k].username, cl.pgUsers[k].password} : k \in DOMAIN cl.pgUsers}

\* worker p is in createStatefulSet and its quantities parse
Synthesizes(p) ==
    op[p] = "createStatefulSet" /\ pc[p] \in {"ss_create", "done"}
       /\ FirstPanic(c[p]) = 0

\* C13: the workload set createStatefulSet hands to Create is the one it
\* would hand over with any other credentials in pgUsers; none of its
\* variables carries a username or password, and the two password variables
\* are references to the key "password" of a secret.
C13_NoCredentialInWorkload ==
    \A p \in Procs :
        Synthesizes(p)
        => LET obj == StatefulSet(c[p])
           IN /\ \A us \in PgUserLists :
                    StatefulSet([c[p] EXCEPT !.pgUsers = us]) = obj
              /\ \A k \in DOMAIN obj.env :
                    "value" \in DOMAIN obj.env[k]
                    => obj.env[k].value \notin CredentialBytes(c[p])
              /\ \A k \in DOMAIN obj.env :
                    obj.env[k].name \in {"PGPASSWORD_SUPERUSER", "PGPASSWORD_STANDBY"}
                    => /\ DOMAIN obj.env[k] = {"name", "secretName", "key"}
                       /\ obj.env[k].key = "password"
              /\ Errs(trace[p]) = <<Nil>> => obj \in statefulSets

\* a workload set was created by a receiver that holds a password
C13_Witness ==
    \E p \in Procs :
        /\ Returned(p, "createStatefulSet")
        /\ Errs(trace[p]) = <<Nil>>
        /\ c[p].pgUsers # <<>> /\ c[p].pgUsers[1].password = "pw2"
        /\ StatefulSet(c[p]) \in statefulSets

\* the entries of a request map for one resource
Entries(req, res) == {r \in req : r.resource = res}

\* C14: for every combination of empty and well-formed CPU and memory
\* values, the request map of the synthesized container has a CPU entry
\* exactly when the CPU value is non-empty and a memory entry exactly when
\* the memory value is non-empty, each holding the parsed value; no entry is
\* zero, and the workload set created carries that map.
C14_ResourceOmission ==
    \A p \in Procs :
        Synthesizes(p)
        => LET req == StatefulSet(c[p]).requests
           IN /\ Entries(req, "cpu") =
                    IF c[p].cpu = "" THEN {}
                    ELSE {[resource |-> "cpu", quantity |-> ParseQuantity(c[p].cpu)]}
              /\ Entries(req, "memory") =
                    IF c[p].memory = "" THEN {}
                    ELSE {[resource |-> "memory",
                           quantity |-> ParseQuantity(c[p].memory)]}
              /\ req = Entries(req, "cpu") \cup Entries(req, "memory")
              /\ \A r \in req : r.quantity.digits # 0
              /\ Errs(trace[p]) = <<Nil>>
                    => \A o \in Named(statefulSets, c[p].name) : o.requests = req

\* a workload set created with a memory request and no CPU request
C14_Witness ==
    \E p \in Procs :
        /\ Returned(p, "createStatefulSet") /\ Errs(trace[p]) = <<Nil>>
        /\ c[p].cpu = "" /\ c[p].memory = "1Gi"
        /\ \E o \in statefulSets :
              o.requests = {[resource |-> "memory",
                             quantity |-> [digits |-> 1, suffix |-> "Gi"]]}

\* C15: the workload set createStatefulSet hands to Create, and the one the
\* platform holds after a successful Create, has the instance count of the
\* spec as its replica count, unchanged, and that count is at least 1.
C15_ReplicasVerbatim ==
    \A p \in Procs :
        Synthesizes(p)
        => /\ StatefulSet(c[p]).replicas = c[p].numberOfInstances
           /\ StatefulSet(c[p]).replicas >= 1
           /\ Errs(trace[p]) = <<Nil>>
                 => \A o \in Named(statefulSets, c[p].name) :
                       o.replicas = c[p].numberOfInstances

\* a workload set created with the largest instance count
C15_Witness ==
    \E p \in Procs :
        /\ Returned(p, "createStatefulSet") /\ Errs(trace[p]) = <<Nil>>
        /\ c[p].numberOfInstances = MaxInstances
        /\ \E o \in statefulSets : o.replicas = MaxInstances

IsCall(e, verb) == e.t = "call" /\ e.verb = verb

\* the calls of a trace made for the secret of one name
CallsFor(tr, name) == SelectSeq(tr, LAMBDA e : e.t = "call" /\ e.name = name)

\* C16: at every point of applySecrets, each Update directly follows a
\* Create of the same secret that returned "already exists"; each such
\* Create is directly followed by that Update; a Create that succeeded or
\* failed otherwise is followed by its log line and no Update; and no secret
\* name gets more than two calls.
C16_UpdateIffExists ==
    \A p \in Procs :
        op[p] = "applySecrets"
        => LET tr == trace[p]
           IN /\ \A k \in DOMAIN tr :
                    tr[k].t = "call" => tr[k].verb \in {"Create", "Update"}
              /\ \A k \in DOMAIN tr :
                    IsCall(tr[k], "Update")
                    => /\ k > 1
                       /\ IsCall(tr[k - 1], "Create")
                       /\ tr[k - 1].name = tr[k].name
                       /\ tr[k - 1].err = AlreadyExists
                       /\ k < Len(tr) /\ tr[k + 1].t = "log"
              /\ \A k \in DOMAIN tr :
                    IsCall(tr[k], "Create")
                    => IF tr[k].err = AlreadyExists
                       THEN IF k = Len(tr) THEN pc[p] = "sec_update"
                            ELSE IsCall(tr[k + 1], "Update")
                                    /\ tr[k + 1].name = tr[k].name
                       ELSE k < Len(tr) /\ tr[k + 1].t = "log"
              /\ \A k \in DOMAIN c[p].pgUsers :
                    Len(CallsFor(tr, Secret(c[p], c[p].pgUsers[k]).name)) <= 2

\* one credential was updated after "already exists", the next one's Create
\* failed and no Update followed
C16_Witness ==
    \E p \in Procs :
        /\ Returned(p, "applySecrets")
        /\ Len(c[p].pgUsers) = 2
        /\ Errs(trace[p]) = <<AlreadyExists, Nil, PlatformError>>

\* an invocation that found its object present makes no mutating call
C17_NoWrite ==
    \A p \in Procs : \A o \in GetThenCreate :
        (op[p] = o /\ pre[p]) => Mutating(trace[p]) = <<>>

\* every stored service and endpoint is still stored, unchanged, after a step
C17_Frame == services \subseteq services' /\ endpoints \subseteq endpoints'

\* C17: createService and createEndPoint never modify an object that already
\* exists: an invocation that finds the object present issues no Create or
\* Update, and no step replaces or removes a stored service or endpoint, so a
\* service whose content differs from the synthesized one stays as it is.
C17_ExistingUntouched == [](C17_NoWrite) /\ [][C17_Frame]_vars

\* createService returned over a stale service that differs from the
\* synthesized one, and the stale object is still the stored one
C17_Witness ==
    \E p \in Procs :
        /\ Returned(p, "createService")
        /\ pre[p]
        /\ Errs(trace[p]) = <<Nil>>
        /\ Service(c[p]) # StaleService(c[p].name)
        /\ Named(services, c[p].name) = {StaleService(c[p].name)}

\* the secrets the current pass of worker p writes under one name
Written(p, name) ==
    {s \in {Secret(c[p], c[p].pgUsers[k]) : k \in DOMAIN c[p].pgUsers} :
        s.name = name}

\* the results of the calls worker p made for the secret of one name
ErrsFor(p, name) == Errs(CallsFor(trace[p], name))

\* the only writers so far are one applySecrets pass per worker, and each
\* has returned free of platform errors
PassesFinished ==
    \A p \in Procs :
        /\ ops[p] = 1
        /\ Returned(p, "applySecrets")
        /\ PlatformError \notin Range(Errs(trace[p]))

\* C18: with applySecrets passes interleaved in any way, no fallback Update
\* meets an absent secret; and once every pass has returned without a
\* platform error, and nothing else has written, each stored secret is the
\* whole secret of one of the passes, and it is the updating pass's when the
\* other pass only created it.
C18_UpdateFindsWholeSecret ==
    /\ \A p \in Procs : \A k \in DOMAIN trace[p] :
          IsCall(trace[p][k], "Update") => trace[p][k].err # NotFound
    /\ PassesFinished
       => \A s \in secrets :
             /\ s \in UNION {Written(p, s.name) : p \in Procs}
             /\ \A p, q \in Procs :
                   (/\ ErrsFor(p, s.name) = <<Nil>>
                    /\ ErrsFor(q, s.name) = <<AlreadyExists, Nil>>)
                   => s \in Written(q, s.name)

\* two passes for one cluster carried different passwords for one user: one
\* created the secret, the other then updated it, and the updater's is stored
C18_Witness ==
    \E p, q \in Procs : \E s \in secrets :
        /\ PassesFinished
        /\ c[p].name = c[q].name
        /\ ErrsFor(p, s.name) = <<Nil>>
        /\ ErrsFor(q, s.name) = <<AlreadyExists, Nil>>
        /\ Written(p, s.name) # Written(q, s.name)
        /\ s \in Written(q, s.name)

\* how many calls of one verb a trace holds for one object name
Count(tr, verb, name) ==
    Len(SelectSeq(tr, LAMBDA e : IsCall(e, verb) /\ e.name = name))

\* the call budget of createService, createEndPoint and applySecrets, and
\* the upper bound of createStatefulSet
CallBudget(p) ==
    LET tr == trace[p]
    IN /\ op[p] \in GetThenCreate
          => /\ Len(Calls(tr)) <= 2
             /\ Count(tr, "Get", c[p].name) <= 1
             /\ Count(tr, "Create", c[p].name) <= 1
             /\ Count(tr, "Update", c[p].name) = 0
       /\ op[p] = "createStatefulSet"
          => /\ Len(Calls(tr)) <= 1
             /\ Len(Calls(tr)) = Count(tr, "Create", c[p].name)
       /\ op[p] = "applySecrets"
          => /\ Len(Calls(tr)) <= 2 * Len(c[p].pgUsers)
             /\ \A k \in DOMAIN c[p].pgUsers :
                   LET name == Secret(c[p], c[p].pgUsers[k]).name
                   IN /\ Count(tr, "Get", name) = 0
                      /\ Count(tr, "Create", name) <= 1
                      /\ Count(tr, "Update", name) <= 1

Terminates == \A p \in Procs : (~Quiet(p)) ~> Quiet(p)

\* C19 as stated: every operation terminates when each platform call
\* returns, within its call budget, and createStatefulSet has issued exactly
\* one Create whenever it has ended.
C19_EndsAfterOneCreate ==
    /\ [](\A p \in Procs :
            /\ CallBudget(p)
            /\ (op[p] = "createStatefulSet" /\ Quiet(p))
                  => Count(trace[p], "Create", c[p].name) = 1)
    /\ Terminates

\* C19 amended: every operation terminates when each platform call returns:
\* createService and createEndPoint after at most one Get and one Create,
\* applySecrets after at most one Create and one Update per credential,
\* createStatefulSet after exactly one Create when it returns and after no
\* call when it panics on a malformed quantity; no call is repeated.
C19_Terminates ==
    /\ [](\A p \in Procs :
            /\ CallBudget(p)
            /\ Returned(p, "createStatefulSet")
                  => Count(trace[p], "Create", c[p].name) = 1
            /\ (op[p] = "createStatefulSet" /\ pc[p] = "panicked")
                  => Calls(trace[p]) = <<>>)
    /\ Terminates

\* after a createStatefulSet that panicked with no call made, applySecrets
\* returned from two credentials, the second's Create failed and not retried
C19_Witness ==
    \E p \in Procs :
        /\ prev[p].op = "createStatefulSet" /\ prev[p].panicked
        /\ prev[p].errs = <<>>
        /\ Returned(p, "applySecrets")
        /\ Len(c[p].pgUsers) = 2
        /\ Errs(trace[p]) = <<Nil, PlatformError>>

====
